---- MODULE Spec2Model ----
(***************************************************************************)
(* Model of the scheduler's multiwaiter (sdk/core/scheduler/multiwait.h):  *)
(* EventWaiter slots, the MultiWaiter object, the list of multiwaiters     *)
(* whose threads have been woken but have not run yet, and the list of     *)
(* threads sleeping on a multiwaiter.  Every method of MultiWaiter is one  *)
(* action; the scheduler runs with interrupts disabled, so each method is  *)
(* atomic.                                                                 *)
(***************************************************************************)
EXTENDS Integers, Sequences, FiniteSets, TLC

\* ------------------------------------------------------------------ bounds

\* Number of threads of the system.
NThreads == 2
\* Number of MultiWaiter objects the heap has room for.
HeapObjects == 2
\* Largest number of event sources passed to one set_events call.
MaxCount == 2
\* Number of allocations the heap serves.
MaxCreates == 2
\* Number of threads that use the kernel call.
NCallers == 3

\* ------------------------------------------------------- program constants

MaxMultiWaiterSize == 8

\* enum EventWaiterKind (multiwaiter.h); `kind` is a two-bit field, so 3 is
\* the only value that names no kind.
EventWaiterQueue == 0
EventWaiterEventChannel == 1
EventWaiterFutex == 2
KindValues == 0..3

\* errno values
EINVAL == 22
ENOMEM == 12

\* enum class EventOperationResult { Error, Wake, Sleep }
Error == 0
Wake == 1
Sleep == 2

\* Stands for std::numeric_limits<uint32_t>::max(), the default maxWakes: the
\* largest number the model checker represents.  No arithmetic is done on it.
UintMax == 2147483647

Null == 0

Threads == 1..NThreads
Callers == 1..NCallers
WaiterIds == 1..HeapObjects

\* ------------------------------------------------------------ addresses
\* Event sources are named by their address.  Address 1 holds a Queue, 2 an
\* Event (event channel), 3 and 4 are words the caller may load; 5 is a
\* pointer that unseals as nothing and carries no load permission.
Queues == {1}
Events == {2}
Words == {3, 4}
Addresses == 1..5
Forged == CHOOSE a \in Addresses : a \notin (Queues \cup Events \cup Words)

\* ----------------------------------------------------------- bit helpers

RECURSIVE BitAnd(_, _)
BitAnd(a, b) ==
    IF a = 0 \/ b = 0 THEN 0
    ELSE (a % 2) * (b % 2) + 2 * BitAnd(a \div 2, b \div 2)

RECURSIVE BitOr(_, _)
BitOr(a, b) ==
    IF a = 0 THEN b
    ELSE IF b = 0 THEN a
    ELSE (IF (a % 2) + (b % 2) > 0 THEN 1 ELSE 0) + 2 * BitOr(a \div 2, b \div 2)

Pow2(n) == 2 ^ n

Low24(v) == v % Pow2(24)

Min(a, b) == IF a < b THEN a ELSE b

\* ------------------------------------------------------------ EventWaiter

\* An EventWaiter in memory that the allocator zeroed.
ZeroSlot ==
    [eventSource |-> Null, eventValue |-> 0, kind |-> 0, flags |-> 0,
     readyEvents |-> 0]

\* An EventWaiter in memory that was not zeroed: the constructor of
\* MultiWaiter does not construct events[], so a slot holds what the memory
\* held.  Here the memory was filled with the byte 0xAA: every
\* bit field holds its share of the pattern, the pointer is no address of the
\* model (-1), and eventValue is 0xAAAAAAAA without its top bit, the largest
\* part of it the model checker represents.  Nothing reads eventValue or
\* eventSource of a slot before a reset has stored them.
PerturbSlot ==
    [eventSource |-> 0 - 1, eventValue |-> 715827882, kind |-> 2, flags |-> 42,
     readyEvents |-> 11184810]

\* What the memory of one slot may hold when heap_allocate returns it.
SlotFills == {ZeroSlot, PerturbSlot}

\* What the memory of events[0..length) may hold when heap_allocate returns
\* it: each slot has contents of its own; the contents of the first MaxCount
\* slots repeat over the rest.
HeapFills(length) ==
    {[i \in 1..length |-> pattern[((i - 1) % MaxCount) + 1]] :
        pattern \in [1..MaxCount -> SlotFills]}

\* What set_ready yields when its Debug::Invariant fails: the scheduler stops
\* and there is no slot.
InvariantFailed == [stopped |-> "Debug::Invariant"]

\* EventWaiter::set_ready: Debug::Invariant((value & 0xFF000000) == 0), then
\* readyEvents |= value in the 24-bit field.
set_ready(slot, value) ==
    IF value \div Pow2(24) # 0 THEN InvariantFailed
    ELSE [slot EXCEPT !.readyEvents = Low24(BitOr(slot.readyEvents, value))]

\* EventWaiter::has_fired
has_fired(slot) == slot.readyEvents # 0

\* The futex reset without the line readyEvents = 0.
ResetFutex_KeepsReady(slot, address, value, current) ==
    LET s == [eventSource |-> address, eventValue |-> value, kind |-> EventWaiterFutex,
              flags |-> 0, readyEvents |-> slot.readyEvents]
    IN  IF current # value
        THEN [slot |-> set_ready(s, 1), fired |-> TRUE]
        ELSE [slot |-> s, fired |-> FALSE]

\* EventWaiter::reset(uint32_t *address, uint32_t value); `current` is
\* *address.  Returns the slot and the bool result.
ResetFutex(slot, address, value, current) ==
    LET s == [eventSource |-> address, eventValue |-> value, kind |-> EventWaiterFutex,
              flags |-> 0, readyEvents |-> 0]
    IN  IF current # value
        THEN [slot |-> set_ready(s, 1), fired |-> TRUE]
        ELSE [slot |-> s, fired |-> FALSE]

\* The futex trigger without the comparison of addresses.
TriggerFutex_AnyAddress(slot, address) ==
    IF slot.kind # EventWaiterFutex
    THEN [slot |-> slot, fired |-> FALSE]
    ELSE [slot |-> set_ready(slot, 1), fired |-> TRUE]

\* EventWaiter::trigger(uint32_t *address)
TriggerFutex(slot, address) ==
    IF slot.kind # EventWaiterFutex \/ slot.eventSource # address
    THEN [slot |-> slot, fired |-> FALSE]
    ELSE [slot |-> set_ready(slot, 1), fired |-> TRUE]

\* EventWaiter::trigger(Queue *queue); `ready` is the set of conditions
\* (send-ready, receive-ready bits) the queue satisfies now.
TriggerQueue(slot, queue, ready) ==
    IF slot.kind # EventWaiterQueue \/ slot.eventSource # queue
    THEN [slot |-> slot, fired |-> FALSE]
    ELSE LET s == set_ready(slot, BitAnd(Low24(slot.eventValue), ready))
         IN  [slot |-> s, fired |-> has_fired(s)]

\* EventWaiter::reset(Queue *queue, uint32_t conditions)
ResetQueue(slot, queue, conditions, ready) ==
    TriggerQueue([eventSource |-> queue, eventValue |-> conditions,
                  kind |-> EventWaiterQueue, flags |-> 0, readyEvents |-> 0],
                 queue, ready)

\* EventWaiter::trigger(Event *event, uint32_t info); `info` is the bits that
\* the channel holds.
TriggerEvent(slot, event, info) ==
    IF slot.kind # EventWaiterEventChannel \/ slot.eventSource # event
    THEN [slot |-> slot, fired |-> FALSE]
    ELSE LET s == set_ready(slot, BitAnd(Low24(slot.eventValue), Low24(info)))
         IN  [slot |-> s, fired |-> has_fired(s)]

\* EventWaiter::reset(Event *event, uint32_t bits)
ResetEvent(slot, event, bits, current) ==
    TriggerEvent([eventSource |-> event, eventValue |-> bits,
                  kind |-> EventWaiterEventChannel, flags |-> (bits \div Pow2(24)) % 64,
                  readyEvents |-> 0],
                 event, current)

\* Handle::unseal<Queue>, Handle::unseal<Event>: the typed pointer, or null.
UnsealQueue(ptr) == IF ptr \in Queues THEN ptr ELSE Null
UnsealEvent(ptr) == IF ptr \in Events THEN ptr ELSE Null
\* check_pointer<PermissionSet{Permission::Load}>
CheckLoad(ptr) == ptr \in Words

\* The slot trigger chosen by the type of the source (the template parameter
\* T of MultiWaiter::trigger).
SlotTrigger(slot, k, source, info, qr) ==
    IF k = EventWaiterQueue THEN TriggerQueue(slot, source, qr)
    ELSE IF k = EventWaiterEventChannel THEN TriggerEvent(slot, source, info)
    ELSE TriggerFutex(slot, source)

\* ------------------------------------------------------------ MultiWaiter

\* Memory that holds no MultiWaiter and that no pointer may read: never
\* allocated, or freed and revoked.  `live` says that the object exists,
\* `mapped` that a load through a pointer to it does not trap; a freed object
\* whose memory was not revoked keeps its contents with live FALSE and mapped
\* TRUE.
FreeMW ==
    [live |-> FALSE, mapped |-> FALSE, Length |-> 0, usedLength |-> 0,
     containedKinds |-> 0, next |-> Null, events |-> << >>]

\* MultiWaiter::MultiWaiter(size_t length) on the memory heap_allocate
\* returned: the header fields are initialised, events[] is what the memory
\* held (`fill`, one value per slot).
NewMW(length, fill) ==
    [live |-> TRUE, mapped |-> TRUE, Length |-> length % 256, usedLength |-> 0,
     containedKinds |-> 0, next |-> Null, events |-> fill]

\* MultiWaiter::create: the errno value and whether an object is returned;
\* `heapOk` is whether heap_allocate returned memory.
CreateResult(length, heapOk) ==
    IF length > MaxMultiWaiterSize THEN [error |-> 0 - EINVAL, made |-> FALSE]
    ELSE IF ~heapOk THEN [error |-> 0 - ENOMEM, made |-> FALSE]
    ELSE [error |-> 0, made |-> TRUE]

\* One iteration of the loop of set_events: validate newEvents[i], reset
\* events[i].  `env` holds what the sources report: word values, queue
\* conditions, channel bits.
SetOneEvent(m, i, ev, env) ==
    LET ptr == ev.eventSource
        done(r) == [ok |-> TRUE, fired |-> r.fired,
                    m |-> [m EXCEPT !.events[i] = r.slot,
                                    !.containedKinds = BitOr(@, Pow2(ev.kind))]]
        fail == [ok |-> FALSE, fired |-> FALSE, m |-> m]
    IN  IF ev.kind = EventWaiterQueue
        THEN IF UnsealQueue(ptr) = Null THEN fail
             ELSE done(ResetQueue(m.events[i], UnsealQueue(ptr), ev.value, env.queue[ptr]))
        ELSE IF ev.kind = EventWaiterEventChannel
        THEN IF UnsealEvent(ptr) = Null \/ Low24(ev.value) = 0 THEN fail
             ELSE done(ResetEvent(m.events[i], UnsealEvent(ptr), ev.value, env.bits[ptr]))
        ELSE IF ev.kind = EventWaiterFutex
        THEN IF ~CheckLoad(ptr) THEN fail
             ELSE done(ResetFutex(m.events[i], ptr, ev.value, env.word[ptr]))
        ELSE fail

\* The loop of set_events with eventTriggered assigned instead of or-ed.
RECURSIVE SetEventsLoop_Assign(_, _, _, _, _)
SetEventsLoop_Assign(m, newEvents, i, eventTriggered, env) ==
    IF i > Len(newEvents)
    THEN [m |-> [m EXCEPT !.usedLength = Len(newEvents)],
          result |-> IF eventTriggered THEN Wake ELSE Sleep]
    ELSE LET r == SetOneEvent(m, i, newEvents[i], env)
         IN  IF ~r.ok THEN [m |-> m, result |-> Error]
             ELSE SetEventsLoop_Assign(r.m, newEvents, i + 1, r.fired, env)

\* The loop of set_events storing the count also when a source is rejected.
RECURSIVE SetEventsLoop_CountOnError(_, _, _, _, _)
SetEventsLoop_CountOnError(m, newEvents, i, eventTriggered, env) ==
    IF i > Len(newEvents)
    THEN [m |-> [m EXCEPT !.usedLength = Len(newEvents)],
          result |-> IF eventTriggered THEN Wake ELSE Sleep]
    ELSE LET r == SetOneEvent(m, i, newEvents[i], env)
         IN  IF ~r.ok THEN [m |-> [m EXCEPT !.usedLength = Len(newEvents)], result |-> Error]
             ELSE SetEventsLoop_CountOnError(r.m, newEvents, i + 1,
                                             eventTriggered \/ r.fired, env)

\* The loop of set_events: validate and reset slot by slot, stop at the first
\* rejected source.
RECURSIVE SetEventsLoop(_, _, _, _, _)
SetEventsLoop(m, newEvents, i, eventTriggered, env) ==
    IF i > Len(newEvents)
    THEN [m |-> [m EXCEPT !.usedLength = Len(newEvents)],
          result |-> IF eventTriggered THEN Wake ELSE Sleep]
    ELSE LET r == SetOneEvent(m, i, newEvents[i], env)
         IN  IF ~r.ok THEN [m |-> m, result |-> Error]
             ELSE SetEventsLoop(r.m, newEvents, i + 1, eventTriggered \/ r.fired, env)

\* MultiWaiter::set_events
set_events(m, newEvents, env) ==
    SetEventsLoop([m EXCEPT !.containedKinds = 0], newEvents, 1, FALSE, env)

\* The loop of trigger over begin()..end(), that is events[0..usedLength).
\* Only the header of freed memory that was written over holds a usedLength
\* beyond the allocation; the pointer is bounded to the allocation, so the
\* load of the first slot outside it traps (`oob`).
RECURSIVE TriggerLoop(_, _, _, _, _, _, _)
TriggerLoop(m, i, shouldWake, k, source, info, qr) ==
    IF i > m.usedLength THEN [m |-> m, fired |-> shouldWake, oob |-> FALSE]
    ELSE IF i > Len(m.events) THEN [m |-> m, fired |-> shouldWake, oob |-> TRUE]
    ELSE LET r == SlotTrigger(m.events[i], k, source, info, qr)
         IN  TriggerLoop([m EXCEPT !.events[i] = r.slot], i + 1,
                         shouldWake \/ r.fired, k, source, info, qr)

\* trigger without the test of containedKinds.
trigger_NoKindTest(m, k, source, info, qr) ==
    TriggerLoop(m, 1, FALSE, k, source, info, qr)

\* MultiWaiter::trigger<T>(T *source, uint32_t info)
trigger(m, k, source, info, qr) ==
    IF BitAnd(m.containedKinds, Pow2(k)) = 0
    THEN [m |-> m, fired |-> FALSE, oob |-> FALSE]
    ELSE TriggerLoop(m, 1, FALSE, k, source, info, qr)

\* The values get_results writes to newEvents[0..count).
ResultValues(m, count) == [i \in 1..count |-> m.events[i].readyEvents]

\* The return value of get_results.
ResultFound(m, count) == \E i \in 1..count : m.events[i].readyEvents # 0

\* ------------------------------------------------------------------ state

VARIABLES
    mw,                 \* the heap: WaiterIds -> MultiWaiter, live or freed
    wokenMultiwaiters,  \* head of the list of woken multiwaiters
    threads,            \* MultiWaiter::threads, the sleeping threads, in list order
    thr,                \* per thread: state, multiWaiter, timeout, wake reason
    env,                \* what the event sources hold, the heap's allocation count
    kernel,             \* "ok", or how the scheduler stopped
    last                \* the last call and what it returned

vars == <<mw, wokenMultiwaiters, threads, thr, env, kernel, last>>

\* A call: the operation, the calling thread, the multiwaiter, the arguments
\* (arg, n), the return value and what was written to the caller's array.
NoCall ==
    [op |-> "none", t |-> 0, w |-> 0, arg |-> << >>, n |-> 0, ret |-> 0, out |-> << >>]

Call(op, t, w, arg, n, ret, out) ==
    [op |-> op, t |-> t, w |-> w, arg |-> arg, n |-> n, ret |-> ret, out |-> out]

Range(s) == {s[i] : i \in 1..Len(s)}

\* --------------------------------------------------------------- threads

\* Thread priorities; the sleeping list is sorted by priority, the highest
\* first, threads of equal priority in arrival order.
Priority(t) == (t + 1) \div 2

RECURSIVE InsertSorted(_, _, _)
InsertSorted(list, t, i) ==
    IF i > Len(list) THEN Append(list, t)
    ELSE IF Priority(list[i]) < Priority(t)
    THEN SubSeq(list, 1, i - 1) \o <<t>> \o SubSeq(list, i, Len(list))
    ELSE InsertSorted(list, t, i + 1)

RemoveFromList(list, t) == SelectSeq(list, LAMBDA x : x # t)

\* Thread::suspend(timeout, &MultiWaiter::threads): with a zero timeout it
\* returns at once and the thread runs on; with any other the thread sleeps
\* on the list until it is made ready.
ThreadSuspend(st, t, timeout) ==
    IF timeout = "zero" THEN st
    ELSE [st EXCEPT !.thr[t].state = "suspended", !.thr[t].timeout = timeout,
                    !.threads = InsertSorted(st.threads, t, 1)]

\* Thread::ready(reason): leaves the sleep queue and the timer list.
ThreadReady(st, t, reason) ==
    [st EXCEPT !.thr[t].state = "ready", !.thr[t].timeout = "none",
               !.thr[t].reason = reason,
               !.threads = RemoveFromList(st.threads, t)]

\* ------------------------------------------------- the woken-multiwaiter list

\* A pointer that is no address of a multiwaiter: what a next field holds
\* after the allocator wrote its own data over a freed header.
Wild == HeapObjects + 1

\* A load through the pointer p reads a multiwaiter's memory and does not
\* trap.
Readable(mws, p) == p \in WaiterIds /\ mws[p].mapped

\* The nodes reached from `cur` by following next.  A node in revoked memory
\* faults, a freed node whose memory is still mapped is read like any other;
\* more nodes than the heap holds means the links form a cycle and the walk
\* never ends.
RECURSIVE ListFrom(_, _, _)
ListFrom(mws, cur, fuel) ==
    IF cur = Null THEN [status |-> "ok", seq |-> << >>]
    ELSE IF ~Readable(mws, cur) THEN [status |-> "fault", seq |-> << >>]
    ELSE IF fuel = 0 THEN [status |-> "hang", seq |-> << >>]
    ELSE LET r == ListFrom(mws, mws[cur].next, fuel - 1)
         IN  [status |-> r.status, seq |-> <<cur>> \o r.seq]

PendingList(mws, head) == ListFrom(mws, head, HeapObjects)

\* The loop of remove_from_pending_wake_list: the node whose next field is
\* *prev when the loop ends (Null for &wokenMultiwaiters).
RECURSIVE FindPrev(_, _, _, _, _)
FindPrev(mws, w, cur, prev, fuel) ==
    IF cur = Null \/ cur = w THEN [status |-> "ok", prev |-> prev]
    ELSE IF ~Readable(mws, cur) THEN [status |-> "fault", prev |-> prev]
    ELSE IF fuel = 0 THEN [status |-> "hang", prev |-> prev]
    ELSE FindPrev(mws, w, mws[cur].next, cur, fuel - 1)

\* MultiWaiter::remove_from_pending_wake_list on multiwaiter w.
remove_from_pending_wake_list(st, w) ==
    LET f == FindPrev(st.mw, w, st.head, Null, HeapObjects)
        nxt == st.mw[w].next
    IN  IF f.status # "ok" THEN [st EXCEPT !.kernel = f.status]
        ELSE IF f.prev = Null
        THEN [st EXCEPT !.head = nxt, !.mw[w].next = Null]
        ELSE [st EXCEPT !.mw[f.prev].next = nxt, !.mw[w].next = Null]

\* ------------------------------------------------------------ wake_waiters

\* The body of the first loop of wake_waiters from the node `cur` on:
\* trigger the node, then load its next.  What the triggers before a trap
\* stored stays stored; after as many nodes as the heap holds the links form
\* a cycle, every node of it has been triggered and the loop never ends.
RECURSIVE TriggerWalk(_, _, _, _, _, _, _)
TriggerWalk(st, cur, fuel, k, source, info, qr) ==
    IF cur = Null THEN st
    ELSE IF ~Readable(st.mw, cur) THEN [st EXCEPT !.kernel = "fault"]
    ELSE IF fuel = 0 THEN [st EXCEPT !.kernel = "hang"]
    ELSE LET r == trigger(st.mw[cur], k, source, info, qr)
             s1 == [st EXCEPT !.mw[cur] = r.m, !.visits = Append(@, cur)]
         IN  IF r.oob THEN [s1 EXCEPT !.kernel = "fault"]
             ELSE TriggerWalk(s1, r.m.next, fuel - 1, k, source, info, qr)

\* First loop of wake_waiters: trigger every multiwaiter on the woken list.
\* A loop that never ends has no finite sequence of calls: visits is left as
\* it was.
TriggerWoken(st, k, source, info, qr) ==
    LET s1 == TriggerWalk(st, st.head, HeapObjects, k, source, info, qr)
    IN  IF s1.kernel = "hang" THEN [s1 EXCEPT !.visits = st.visits] ELSE s1

\* The visitor passed to walk_thread_list by wake_waiters.
WakeVisitor(st, t, k, source, info, qr) ==
    LET w == st.thr[t].multiWaiter
    IN  IF ~Readable(st.mw, w) THEN [st EXCEPT !.kernel = "fault"]
        ELSE LET r == trigger(st.mw[w], k, source, info, qr)
                 s1 == [st EXCEPT !.mw[w] = r.m, !.visits = Append(@, w)]
             IN  IF r.oob THEN [s1 EXCEPT !.kernel = "fault"]
                 ELSE IF r.fired
                 THEN LET s2 == ThreadReady(s1, t, "MultiWaiter")
                      IN  [s2 EXCEPT !.woken = @ + 1,
                                     !.mw[w].next = s2.head,
                                     !.head = w]
                 ELSE s1

\* The stop condition off by one.
ShouldStop_OffByOne(woken, maxWakes) == woken > maxWakes

\* The stop condition passed to walk_thread_list by wake_waiters.
ShouldStop(woken, maxWakes) == woken >= maxWakes

\* Thread::walk_thread_list(threads, visitor, shouldStop): visits the threads
\* of the list as it was when the walk began, in order, until shouldStop.
RECURSIVE WalkWake(_, _, _, _, _, _, _, _)
WalkWake(st, list, i, k, source, info, qr, maxWakes) ==
    IF i > Len(list) \/ st.kernel # "ok" \/ ShouldStop(st.woken, maxWakes) THEN st
    ELSE WalkWake(WakeVisitor(st, list[i], k, source, info, qr), list, i + 1,
                  k, source, info, qr, maxWakes)

\* wake_waiters counting the multiwaiters of its first loop as wakes.
wake_waiters_CountPending(st, k, source, info, qr, maxWakes) ==
    LET n == Len(PendingList(st.mw, st.head).seq)
        s1 == TriggerWoken([st EXCEPT !.woken = n], k, source, info, qr)
    IN  IF s1.kernel # "ok" THEN s1
        ELSE WalkWake(s1, s1.threads, 1, k, source, info, qr, maxWakes)

\* MultiWaiter::wake_waiters<T>(source, info, maxWakes); st.woken is the
\* value it returns, st.visits the multiwaiters it called trigger on, in the
\* order of the calls.
wake_waiters(st, k, source, info, qr, maxWakes) ==
    LET s1 == TriggerWoken([st EXCEPT !.woken = 0], k, source, info, qr)
    IN  IF s1.kernel # "ok" THEN s1
        ELSE WalkWake(s1, s1.threads, 1, k, source, info, qr, maxWakes)

\* ---------------------------------------------------------------- destroy

\* DestroyVisitor without the call of thread->ready.
DestroyVisitor_NoReady(st, t, w) ==
    IF st.thr[t].multiWaiter = w
    THEN [st EXCEPT !.thr[t].multiWaiter = Null]
    ELSE st

\* The visitor passed to walk_thread_list by ~MultiWaiter.
DestroyVisitor(st, t, w) ==
    IF st.thr[t].multiWaiter = w
    THEN ThreadReady([st EXCEPT !.thr[t].multiWaiter = Null], t, "Timer")
    ELSE st

RECURSIVE WalkDestroy(_, _, _, _)
WalkDestroy(st, list, i, w) ==
    IF i > Len(list) THEN st
    ELSE WalkDestroy(DestroyVisitor(st, list[i], w), list, i + 1, w)

\* A byte of the allocator's own data, as a header field of freed memory
\* reads it; it is larger than any Length.
GarbageByte == 85

\* What the memory of a deleted multiwaiter is to a pointer that was kept:
\* "revoked", no load through the pointer succeeds; "kept", the memory holds
\* what the destructor left; "overwritten", the allocator wrote its own data
\* over the header and left the slots: the lengths read as bytes of that
\* data, no kind is contained and next is no multiwaiter.
FreeOutcomes ==
    {[how |-> h, Length |-> 0, usedLength |-> 0, containedKinds |-> 0, next |-> Null] :
        h \in {"revoked", "kept"}}
    \cup {[how |-> "overwritten", Length |-> GarbageByte, usedLength |-> GarbageByte,
           containedKinds |-> 0, next |-> Wild]}

\* The memory of w after it went back to the heap.  The code sets nothing
\* in it; what a pointer that was kept reads there is not defined and is one
\* of FreeOutcomes.
Freed(old, after) ==
    IF after.how = "revoked" THEN FreeMW
    ELSE IF after.how = "kept" THEN [old EXCEPT !.live = FALSE]
    ELSE [old EXCEPT !.live = FALSE, !.Length = after.Length,
                     !.usedLength = after.usedLength,
                     !.containedKinds = after.containedKinds,
                     !.next = after.next]

\* ~MultiWaiter without the walk over the sleeping threads.
destroy_NoWalk(st, w, after) ==
    LET s1 == remove_from_pending_wake_list(st, w)
    IN  IF s1.kernel # "ok" THEN s1
        ELSE [s1 EXCEPT !.mw[w] = Freed(@, after)]

\* MultiWaiter::~MultiWaiter, then the memory goes back to the heap.
destroy(st, w, after) ==
    LET s1 == remove_from_pending_wake_list(st, w)
    IN  IF s1.kernel # "ok" THEN s1
        ELSE [WalkDestroy(s1, s1.threads, 1, w) EXCEPT !.mw[w] = Freed(@, after)]

\* The scheduler state the operators above work on.
State ==
    [mw |-> mw, head |-> wokenMultiwaiters, threads |-> threads, thr |-> thr,
     kernel |-> kernel, woken |-> 0, visits |-> << >>]

\* The variables take the values of st.  When the scheduler stopped, st is
\* the state it stopped in: what the call stored before it stopped is stored.
Becomes(st) ==
    /\ kernel' = st.kernel
    /\ mw' = st.mw
    /\ wokenMultiwaiters' = st.head
    /\ threads' = st.threads
    /\ thr' = st.thr

\* ------------------------------------------------------------------- Init

Init ==
    /\ mw = [w \in WaiterIds |-> FreeMW]
    /\ wokenMultiwaiters = Null
    /\ threads = << >>
    /\ thr = [t \in Threads |->
                [state |-> "running", multiWaiter |-> Null, timeout |-> "none",
                 reason |-> "none"]]
    /\ env = [word |-> [a \in Words |-> 0], queue |-> [q \in Queues |-> 0],
              bits |-> [e \in Events |-> 0], allocations |-> 0]
    /\ kernel = "ok"
    /\ last = NoCall

Running(t) == kernel = "ok" /\ thr[t].state = "running"

\* The memory that holds no multiwaiter: what heap_allocate may return.  The
\* allocator chooses; nothing in the scheduler says which block it is.
FreeIds == {w \in WaiterIds : ~mw[w].live}

\* What heap_allocate returns: the memory at q, or null.
HeapReturns == FreeIds \cup {Null}

\* The heap has allocations left to serve.
HeapServes == env.allocations < MaxCreates

\* What events[0..length) of the memory at q may hold when heap_allocate
\* returns it: slot by slot, what the allocator or an earlier owner of other
\* kind left there (HeapFills) or what the multiwaiter deleted at q left in
\* that slot.  A create that allocates nothing has no slots.
HeapContents(q, length) ==
    IF q = Null \/ length > MaxMultiWaiterSize THEN {<< >>}
    ELSE LET old == mw[q].events
         IN  {[i \in 1..length |->
                  IF i <= Len(old) /\ stale[((i - 1) % MaxCount) + 1]
                  THEN old[i] ELSE fill[i]] :
                fill \in HeapFills(length), stale \in [1..MaxCount -> BOOLEAN]}

\* ---------------------------------------------------------------- actions

\* MultiWaiter::create(length, error) called by thread t; q is what
\* heap_allocate returns when create calls it, `fill` what events[] of that
\* memory holds.
Create(t, length, q, fill) ==
    /\ Running(t)
    /\ q \in HeapReturns
    /\ fill \in HeapContents(q, length)
    /\ LET r == CreateResult(length, q # Null)
       IN  IF r.made
           THEN /\ mw' = [mw EXCEPT ![q] = NewMW(length, fill)]
                /\ env' = [env EXCEPT !.allocations = @ + 1]
                /\ last' = Call("create", 0, q, <<TRUE>>, length, r.error, << >>)
           ELSE /\ mw' = mw
                /\ env' = env
                /\ last' = Call("create", 0, Null, <<q # Null>>, length, r.error, << >>)
    /\ UNCHANGED <<wokenMultiwaiters, threads, thr, kernel>>

\* MultiWaiter::set_events(newEvents, count) called by thread t on w; the
\* caller has checked count against capacity().
SetEvents(t, w, newEvents) ==
    /\ Running(t)
    /\ mw[w].live
    /\ Len(newEvents) <= mw[w].Length
    /\ LET r == set_events(mw[w], newEvents, env)
       IN  /\ mw' = [mw EXCEPT ![w] = r.m]
           /\ last' = Call("set_events", 0, w, newEvents, Len(newEvents), r.result, << >>)
    /\ UNCHANGED <<wokenMultiwaiters, threads, thr, env, kernel>>

\* MultiWaiter::wait(timeout) called by thread t on w: the thread records w
\* and calls suspend.  When suspend returns at once the last line of wait
\* clears the record; when the thread sleeps, that line runs as the thread
\* resumes (Resume).
wait(st, t, w, timeout) ==
    LET s1 == ThreadSuspend([st EXCEPT !.thr[t].multiWaiter = w], t, timeout)
    IN  IF s1.thr[t].state = "running"
        THEN [s1 EXCEPT !.thr[t].multiWaiter = Null]
        ELSE s1

Wait(t, w, timeout) ==
    /\ Running(t)
    /\ mw[w].live
    /\ Becomes(wait(State, t, w, timeout))
    /\ last' = Call("wait", t, w, <<timeout>>, 0, 0, << >>)
    /\ UNCHANGED env

\* The kernel call multiwaiter_wait(timeout, waiter, events, count) up to
\* the point where the thread is suspended or runs on.  It runs as one step
\* of the kernel, no dispatch between its parts: it registers the batch and,
\* when nothing has fired yet, suspends the caller; an already ready result
\* and an error skip the suspension.
multiwaiter_wait(st, t, w, newEvents, timeout, e) ==
    LET r == set_events(st.mw[w], newEvents, e)
        s1 == [st EXCEPT !.mw[w] = r.m]
    IN  [result |-> r.result,
         st |-> IF r.result = Sleep THEN wait(s1, t, w, timeout) ELSE s1]

\* Thread t calls multiwaiter_wait on w.  A caller that is not suspended
\* and whose batch was accepted collects the results at once.
MultiwaiterWait(t, w, newEvents, timeout) ==
    /\ Running(t)
    /\ mw[w].live
    /\ Len(newEvents) <= mw[w].Length
    /\ LET c == multiwaiter_wait(State, t, w, newEvents, timeout, env)
           collects == c.result # Error /\ c.st.thr[t].state = "running"
           s2 == IF collects THEN remove_from_pending_wake_list(c.st, w) ELSE c.st
       IN  /\ Becomes(s2)
           /\ last' = Call("multiwaiter_wait", t, w, <<timeout>>, Len(newEvents), c.result,
                           IF collects /\ s2.kernel = "ok"
                           THEN ResultValues(s2.mw[w], Len(newEvents)) ELSE << >>)
    /\ UNCHANGED env

\* The scheduler runs the woken thread t inside multiwaiter_wait: suspend
\* returns, wait clears the thread's multiWaiter and the call collects the
\* results from the multiwaiter it waited on, when it still exists.
MultiwaiterReturn(t) ==
    /\ kernel = "ok"
    /\ thr[t].state = "ready"
    /\ LET w == thr[t].multiWaiter
           s1 == [State EXCEPT !.thr[t].state = "running", !.thr[t].multiWaiter = Null,
                               !.thr[t].reason = "none"]
           collects == w # Null /\ mw[w].live
           s2 == IF collects THEN remove_from_pending_wake_list(s1, w) ELSE s1
       IN  /\ Becomes(s2)
           /\ last' = Call("multiwaiter_return", t, w, << >>, 0, 0,
                           IF collects /\ s2.kernel = "ok"
                           THEN ResultValues(s2.mw[w], s2.mw[w].usedLength) ELSE << >>)
    /\ UNCHANGED env

\* The scheduler runs a woken thread: suspend returns and wait clears the
\* thread's multiWaiter.
Resume(t) ==
    /\ kernel = "ok"
    /\ thr[t].state = "ready"
    /\ thr' = [thr EXCEPT ![t].state = "running", ![t].multiWaiter = Null,
                          ![t].reason = "none"]
    /\ last' = Call("resume", t, 0, << >>, 0, 0, << >>)
    /\ UNCHANGED <<mw, wokenMultiwaiters, threads, env, kernel>>

\* The timeout of a sleeping thread expires.
TimerExpiry(t) ==
    /\ kernel = "ok"
    /\ thr[t].state = "suspended"
    /\ thr[t].timeout = "finite"
    /\ Becomes(ThreadReady(State, t, "Timer"))
    /\ last' = Call("timer", t, 0, << >>, 0, 0, << >>)
    /\ UNCHANGED env

\* MultiWaiter::get_results(newEvents, count) called by thread t on w.
GetResults(t, w, count) ==
    /\ Running(t)
    /\ mw[w].live
    /\ LET s1 == remove_from_pending_wake_list(State, w)
           s2 == IF s1.kernel = "ok" /\ count > mw[w].Length
                 THEN [s1 EXCEPT !.kernel = "assert"] ELSE s1
       IN  /\ Becomes(s2)
           /\ last' = IF s2.kernel = "ok"
                      THEN Call("get_results", 0, w, << >>, count,
                                IF ResultFound(s2.mw[w], count) THEN 1 ELSE 0,
                                ResultValues(s2.mw[w], count))
                      ELSE Call("get_results", 0, w, << >>, count, 0, << >>)
    /\ UNCHANGED env

\* The MultiWaiter w is deleted by thread t.
Destroy(t, w, after) ==
    /\ Running(t)
    /\ mw[w].live
    /\ Becomes(destroy(State, w, after))
    /\ last' = Call("destroy", 0, w, <<after>>, 0, 0,
                    [u \in DOMAIN thr |->
                        IF thr[u].state = "suspended" /\ thr[u].multiWaiter = w
                        THEN thr[u].timeout ELSE "none"])
    /\ UNCHANGED env

\* wake_waiters<uint32_t>(address, 0, maxWakes): a futex wake.
WakeFutex(address, maxWakes) ==
    /\ kernel = "ok"
    /\ LET s == wake_waiters(State, EventWaiterFutex, address, 0, 0, maxWakes)
       IN  /\ Becomes(s)
           /\ last' = Call("wake_waiters", 0, 0, <<EventWaiterFutex, address>>, maxWakes,
                           IF s.kernel = "ok" THEN s.woken ELSE 0,
                           s.visits)
    /\ UNCHANGED env

\* A store to a word that futexes may name.
StoreWord(address, value) ==
    /\ kernel = "ok"
    /\ env.word[address] # value
    /\ env' = [env EXCEPT !.word[address] = value]
    /\ last' = Call("store", 0, 0, <<address>>, value, 0, << >>)
    /\ UNCHANGED <<mw, wokenMultiwaiters, threads, thr, kernel>>

\* The queue at `queue` changes and now satisfies the conditions `ready`; it
\* calls wake_waiters<Queue>(queue, 0, maxWakes).
WakeQueue(queue, ready, maxWakes) ==
    /\ kernel = "ok"
    /\ LET s == wake_waiters(State, EventWaiterQueue, queue, 0, ready, maxWakes)
       IN  /\ Becomes(s)
           /\ last' = Call("wake_waiters", 0, 0, <<EventWaiterQueue, queue, ready>>, maxWakes,
                           IF s.kernel = "ok" THEN s.woken ELSE 0,
                           s.visits)
    /\ env' = [env EXCEPT !.queue[queue] = ready]

\* The event channel at `event` now holds `bits`; it calls
\* wake_waiters<Event>(event, bits, maxWakes).
WakeEvent(event, bits, maxWakes) ==
    /\ kernel = "ok"
    /\ LET s == wake_waiters(State, EventWaiterEventChannel, event, bits, 0, maxWakes)
       IN  /\ Becomes(s)
           /\ last' = Call("wake_waiters", 0, 0, <<EventWaiterEventChannel, event, bits>>,
                           maxWakes, IF s.kernel = "ok" THEN s.woken ELSE 0,
                           s.visits)
    /\ env' = [env EXCEPT !.bits[event] = bits]

\* ------------------------------------------------------------ input sets

Timeouts == {"zero", "finite", "unlimited"}

\* The timeouts with which a thread sleeps.
SleepTimeouts == {"finite", "unlimited"}

\* maxWakes: small counts and the default, the largest uint32_t.
WakeCounts == (0..(NThreads - 1)) \cup {UintMax}

\* A futex source: the word at `a`, expected to hold `v`.
Futex(a, v) == [eventSource |-> a, value |-> v, kind |-> EventWaiterFutex]

\* The batch the threads register: both words, each expected to hold 0.
WordBatches == {<<Futex(3, 0), Futex(4, 0)>>}

\* Sequences over S of length at most n.
RECURSIVE SeqsUpTo(_, _)
SeqsUpTo(S, n) ==
    IF n = 0 THEN {<< >>}
    ELSE LET shorter == SeqsUpTo(S, n - 1)
         IN  shorter \cup {Append(s, x) : s \in {q \in shorter : Len(q) = n - 1}, x \in S}

\* --------------------------------------------------------- specification
\* Threads that create multiwaiters, register futex words, wait, collect and
\* delete, against futex wakes and timeouts.

Next ==
    \/ \E t \in Threads, q \in FreeIds :
        \E fill \in HeapContents(q, MaxCount) :
          HeapServes /\ Create(t, MaxCount, q, fill)
    \/ \E t \in Threads, w \in WaiterIds, ev \in WordBatches :
          SetEvents(t, w, ev)
    \/ \E t \in Threads, w \in WaiterIds, timeout \in SleepTimeouts : Wait(t, w, timeout)
    \/ \E t \in Threads : Resume(t)
    \/ \E t \in Threads : TimerExpiry(t)
    \/ \E t \in Threads, w \in WaiterIds, count \in {MaxCount} : GetResults(t, w, count)
    \/ \E t \in Threads, w \in WaiterIds, after \in FreeOutcomes : Destroy(t, w, after)
    \/ \E a \in Words, maxWakes \in WakeCounts : WakeFutex(a, maxWakes)

Spec == Init /\ [][Next]_vars

\* The timeouts after which a wait returns by itself.
BoundedTimeouts == {"zero", "finite"}

\* The threads of Spec waiting with a zero or a finite timeout, under a timer
\* that fires and a scheduler that runs every ready thread; wakes and
\* deletions come or do not.
NextFair ==
    \/ \E t \in Threads, q \in FreeIds :
        \E fill \in HeapContents(q, MaxCount) :
          HeapServes /\ Create(t, MaxCount, q, fill)
    \/ \E t \in Threads, w \in WaiterIds, ev \in WordBatches : SetEvents(t, w, ev)
    \/ \E t \in Threads, w \in WaiterIds, timeout \in BoundedTimeouts : Wait(t, w, timeout)
    \/ \E t \in Threads : Resume(t)
    \/ \E t \in Threads : TimerExpiry(t)
    \/ \E t \in Threads, w \in WaiterIds, after \in FreeOutcomes : Destroy(t, w, after)
    \/ \E a \in Words : WakeFutex(a, UintMax)

FairSpec ==
    /\ Init
    /\ [][NextFair]_vars
    /\ \A t \in Threads : WF_vars(TimerExpiry(t)) /\ WF_vars(Resume(t))

\* An event source of any kind.
Source(k, p, v) == [eventSource |-> p, value |-> v, kind |-> k]

\* The sources a caller registers: a queue, an event channel and a word, each
\* valid; a word expected to hold another value; and each way of being
\* invalid: handles that do not unseal as the kind named, a channel condition
\* with no bit in its low 24, a pointer without load permission, a kind that
\* is none of the three.
RegSources ==
    {Source(EventWaiterQueue, 1, 1),
     Source(EventWaiterEventChannel, 2, 1),
     Futex(3, 0),
     Futex(3, 1),
     Source(EventWaiterQueue, 2, 1),
     Source(EventWaiterEventChannel, Forged, 1),
     Source(EventWaiterEventChannel, 2, Pow2(24)),
     Futex(Forged, 0),
     Source(3, 3, 0)}

\* What unseal and check_pointer accept.
Accepted(ev) ==
    \/ ev.kind = EventWaiterQueue /\ UnsealQueue(ev.eventSource) # Null
    \/ ev.kind = EventWaiterEventChannel /\ UnsealEvent(ev.eventSource) # Null
                                         /\ Low24(ev.value) # 0
    \/ ev.kind = EventWaiterFutex /\ CheckLoad(ev.eventSource)

\* The batches registered: any sources, except that the only source placed
\* after a rejected one is the word expected to hold 1.
RegBatches ==
    {b \in SeqsUpTo(RegSources, MaxCount) :
        \A i \in 2..Len(b) : Accepted(b[i - 1]) \/ b[i] = Futex(3, 1)}

\* The heap of the registering thread: it has the one block, so that every
\* allocation after the first returns memory a multiwaiter was deleted in.
RegBlocks == {1}

\* One thread's multiwaiter: created with any small length, registered with
\* batches of every kind, collected and deleted, while the sources change.
NextReg ==
    \/ \E length \in 0..MaxCount, q \in HeapReturns \cap (RegBlocks \cup {Null}) :
        \E fill \in HeapContents(q, length) :
          HeapServes /\ Create(1, length, q, fill)
    \/ \E w \in WaiterIds, ev \in RegBatches : SetEvents(1, w, ev)
    \/ \E w \in WaiterIds, count \in 0..(MaxCount + 1) : GetResults(1, w, count)
    \/ \E w \in WaiterIds, after \in FreeOutcomes : Destroy(1, w, after)
    \/ \E v \in 0..1 : StoreWord(3, v)
    \/ \E q \in Queues, ready \in 0..1 : WakeQueue(q, ready, UintMax)
    \/ \E e \in Events, bits \in 0..1 : WakeEvent(e, bits, UintMax)

SpecReg == Init /\ [][NextReg]_vars

\* The batches a thread registers before it waits: a queue and a word, a
\* channel, and a batch that set_events rejects.
KindBatches ==
    {<<Source(EventWaiterQueue, 1, 1), Futex(3, 0)>>,
     <<Source(EventWaiterEventChannel, 2, 1)>>,
     <<Futex(Forged, 0)>>}

\* Threads that wait on one multiwaiter holding sources of several kinds,
\* against wakes from the queue, the channel and the word.
NextKinds ==
    \/ \E t \in Threads, q \in FreeIds :
        \E fill \in HeapContents(q, MaxCount) :
          FreeIds = WaiterIds /\ Create(t, MaxCount, q, fill)
    \/ \E t \in Threads, w \in WaiterIds, ev \in KindBatches : SetEvents(t, w, ev)
    \/ \E t \in Threads, w \in WaiterIds : Wait(t, w, "unlimited")
    \/ \E t \in Threads : Resume(t)
    \/ \E t \in Threads, w \in WaiterIds : GetResults(t, w, MaxCount)
    \/ \E q \in Queues, ready \in 0..1 : WakeQueue(q, ready, UintMax)
    \/ \E e \in Events, bits \in 0..1 : WakeEvent(e, bits, UintMax)
    \/ \E a \in Words : WakeFutex(a, UintMax)

SpecKinds == Init /\ [][NextKinds]_vars

\* The counts passed to get_results: fewer than the capacity, the capacity,
\* and one more.
CollectCounts == {1, MaxCount, MaxCount + 1}

\* Threads that wait on multiwaiters for one word, are woken, and collect
\* with every count.
NextCollect ==
    \/ \E t \in Threads, q \in FreeIds :
        \E fill \in HeapContents(q, MaxCount) :
          HeapServes /\ Create(t, MaxCount, q, fill)
    \/ \E t \in Threads, w \in WaiterIds, ev \in WordBatches : SetEvents(t, w, ev)
    \/ \E t \in Threads, w \in WaiterIds : Wait(t, w, "unlimited")
    \/ \E t \in Threads : Resume(t)
    \/ \E t \in Threads, w \in WaiterIds, count \in CollectCounts : GetResults(t, w, count)
    \/ \E a \in Words : WakeFutex(a, UintMax)

SpecCollect == Init /\ [][NextCollect]_vars

\* A thread that creates multiwaiters of every length, and deletes them.
CreateLengths == (0..(MaxMultiWaiterSize + 2)) \cup {256, UintMax}

NextCreate ==
    \/ \E length \in CreateLengths, q \in HeapReturns :
        \E fill \in HeapContents(q, length) :
          HeapServes /\ Create(1, length, q, fill)
    \/ \E w \in WaiterIds, after \in FreeOutcomes : Destroy(1, w, after)

SpecCreate == Init /\ [][NextCreate]_vars

\* Threads that use multiwaiters through the kernel call only: each call
\* registers and suspends in one step and each return collects, against
\* futex wakes and timeouts.
InitCall ==
    /\ mw = [w \in WaiterIds |-> FreeMW]
    /\ wokenMultiwaiters = Null
    /\ threads = << >>
    /\ thr = [t \in Callers |->
                [state |-> "running", multiWaiter |-> Null, timeout |-> "none",
                 reason |-> "none"]]
    /\ env = [word |-> [a \in Words |-> 0], queue |-> [q \in Queues |-> 0],
              bits |-> [e \in Events |-> 0], allocations |-> 0]
    /\ kernel = "ok"
    /\ last = NoCall

NextCall ==
    \/ \E t \in Callers, q \in FreeIds :
        \E fill \in HeapContents(q, MaxCount) :
          HeapServes /\ Create(t, MaxCount, q, fill)
    \/ \E t \in Callers, w \in WaiterIds, ev \in WordBatches, timeout \in Timeouts :
          MultiwaiterWait(t, w, ev, timeout)
    \/ \E t \in Callers : MultiwaiterReturn(t)
    \/ \E t \in Callers : TimerExpiry(t)
    \/ \E a \in Words : WakeFutex(a, UintMax)

SpecCall == InitCall /\ [][NextCall]_vars

\* ------------------------------------------------------------ vocabulary

Suspended(t) == thr[t].state = "suspended"

\* Thread t went from the sleeping list to ready in this step.
WokenNow(t) == thr[t].state = "suspended" /\ thr'[t].state = "ready"

\* The step is a completed call of the named operation.
Did(op) == last'.op = op /\ kernel' = "ok"

\* Multiwaiter w is on the list of woken multiwaiters.
OnPending(w) ==
    LET p == PendingList(mw, wokenMultiwaiters)
    IN  p.status = "ok" /\ w \in Range(p.seq)

\* Slot j of the multiwaiter m is registered for the futex word at address a.
FutexSlot(m, j, a) ==
    /\ j \in 1..m.usedLength
    /\ m.events[j].kind = EventWaiterFutex
    /\ m.events[j].eventSource = a

\* The multiwaiter of sleeping thread t fires for a wake of the word at a.
Eligible(t, a) ==
    LET w == thr[t].multiWaiter
    IN  /\ w # Null
        /\ mw[w].live
        /\ \E j \in 1..mw[w].usedLength : FutexSlot(mw[w], j, a)

\* The sleeping threads eligible for a wake of the word at a, in list order,
\* and the first k of them.
EligibleSeq(a) == SelectSeq(threads, LAMBDA t : Eligible(t, a))

FirstEligible(a, k) ==
    LET e == EligibleSeq(a)
    IN  {e[i] : i \in 1..Min(k, Len(e))}

\* ------------------------------------------------------------------ C1
\* C1: when ~MultiWaiter runs on w to completion, every thread that was
\* suspended on w (on the sleeping list, multiWaiter = w) has its multiWaiter
\* cleared, is off the sleeping list and is ready with wake reason Timer,
\* whatever its timeout; and no thread is ever suspended on freed memory.
C1_DestroyStep ==
    \A w \in WaiterIds :
        (Did("destroy") /\ last'.w = w) =>
            \A t \in Threads :
                (Suspended(t) /\ thr[t].multiWaiter = w) =>
                    /\ thr'[t].multiWaiter = Null
                    /\ thr'[t].state = "ready"
                    /\ thr'[t].reason = "Timer"
                    /\ t \notin Range(threads')

C1_NotBlockedOnDestroyed ==
    \A t \in Threads :
        Suspended(t) => (thr[t].multiWaiter # Null /\ mw[thr[t].multiWaiter].live)

C1_DestroyWakesSleeper == [][C1_DestroyStep]_vars /\ []C1_NotBlockedOnDestroyed

\* A destroy has just forced awake a thread that slept with an unlimited
\* timeout.
C1_Witness ==
    /\ last.op = "destroy"
    /\ kernel = "ok"
    /\ \E t \in Threads :
          /\ last.out[t] = "unlimited"
          /\ thr[t].state = "ready" /\ thr[t].reason = "Timer"
          /\ thr[t].multiWaiter = Null

\* ------------------------------------------------------------------ C2
\* C2: no thread record refers to a multiwaiter that has been destroyed, be
\* the thread sleeping, woken but not yet resumed, or running.
C2_NoReferenceToDestroyed ==
    \A t \in Threads :
        thr[t].multiWaiter # Null => mw[thr[t].multiWaiter].live

\* ------------------------------------------------------------------ C3
\* Multiwaiter w is linked in the list of woken multiwaiters.
Linked(w) == w \in Range(PendingList(mw, wokenMultiwaiters).seq)

\* C3: thread t was marked ready by a wake (reason MultiWaiter) and has not
\* resumed; its multiwaiter w is still linked in the woken list, with slot i
\* fired.  A wake for another word, registered in slot j of w, completes, sets
\* slot j's readyEvents and keeps slot i's, and the get_results that follows
\* writes both to the caller.
C3_SecondWakeStep ==
    \A t \in Threads, w \in WaiterIds : \A i, j \in DOMAIN mw[w].events :
        ( /\ last'.op = "wake_waiters" /\ kernel = "ok"
          /\ thr[t].state = "ready" /\ thr[t].reason = "MultiWaiter"
          /\ thr[t].multiWaiter = w
          /\ mw[w].live /\ Linked(w)
          /\ i \in 1..mw[w].usedLength /\ mw[w].events[i].readyEvents # 0
          /\ mw[w].events[i].eventSource # last'.arg[2]
          /\ FutexSlot(mw[w], j, last'.arg[2]) )
        => /\ kernel' = "ok"
           /\ mw'[w].events[i].readyEvents # 0
           /\ mw'[w].events[j].readyEvents # 0

C3_CollectStep ==
    \A w \in WaiterIds :
        (Did("get_results") /\ last'.w = w) =>
            \A i \in 1..last'.n :
                (mw[w].events[i].readyEvents # 0) => (last'.out[i] # 0 /\ last'.ret = 1)

C3_BothWakesDelivered == [][C3_SecondWakeStep /\ C3_CollectStep]_vars

\* ------------------------------------------------------------------ C4
\* C4: thread t has called multiwaiter_wait on w, the registration returned
\* Sleep and the call suspended t; the trigger that was held back while the
\* call ran, a wake for a word registered in slot j of w, is dispatched next.
\* The dispatch sets that slot's readyEvents and marks t ready.
C4_TriggerAfterRegisterStep ==
    \A t \in Callers, w \in WaiterIds : \A j \in DOMAIN mw[w].events :
        ( /\ last.op = "multiwaiter_wait" /\ last.t = t /\ last.w = w
          /\ last.ret = Sleep
          /\ thr[t].state = "suspended" /\ thr[t].multiWaiter = w
          /\ last'.op = "wake_waiters" /\ kernel = "ok"
          /\ mw[w].live
          /\ FutexSlot(mw[w], j, last'.arg[2])
          /\ t \in FirstEligible(last'.arg[2], last'.n) )
        => /\ kernel' = "ok"
           /\ mw'[w].events[j].readyEvents # 0
           /\ thr'[t].state = "ready"

C5_WakeStep ==
    (last'.op = "wake_waiters" /\ kernel = "ok") =>
        /\ Cardinality({t \in Threads : WokenNow(t)}) <= last'.n
        /\ last'.ret <= last'.n

C5_AtMostMaxWakes == [][C5_WakeStep]_vars

\* A wake with maxWakes = 1 has woken one thread and left asleep another
\* whose multiwaiter fires for the same word.
C5_Witness ==
    /\ kernel = "ok"
    /\ last.op = "wake_waiters" /\ last.n = 1 /\ last.ret = 1
    /\ \E t \in Threads : Suspended(t) /\ Eligible(t, last.arg[2])

\* ------------------------------------------------------------------ C6
\* C6: the threads woken by wake_waiters(source, info, k) are exactly the
\* first min(k, number eligible) eligible threads of the sleeping list, in
\* list order, so the outcome is a function of the list, the multiwaiters and
\* the arguments; every other sleeping thread stays asleep, and the slots of
\* its multiwaiter keep their readyEvents.
C6_WakeStep ==
    Did("wake_waiters") =>
        LET a == last'.arg[2]
            chosen == FirstEligible(a, last'.n)
        IN  /\ {t \in Threads : WokenNow(t)} = chosen
            /\ last'.ret = Cardinality(chosen)
            /\ \A t \in Range(threads) \ chosen :
                  /\ thr'[t] = thr[t]
                  /\ t \in Range(threads')
                  /\ mw'[thr[t].multiWaiter].events = mw[thr[t].multiWaiter].events

C6_FirstEligibleWoken == [][C6_WakeStep]_vars

\* ------------------------------------------------------------------ C8
\* C8: create(length) with length > 8 returns no multiwaiter and error
\* -EINVAL; with length in 1..8 and memory from the heap it returns a new
\* multiwaiter with Length = length, usedLength = 0, containedKinds = 0 and
\* next = null, which is not linked in the list of woken multiwaiters, and
\* error 0; with length in 1..8 and no memory it returns no multiwaiter and
\* error -ENOMEM.  A failed create changes no multiwaiter.
C8_CreateStep ==
    Did("create") =>
        LET length == last'.n
            heapOk == last'.arg[1]
            w == last'.w
        IN  /\ length > 8 =>
                  (last'.ret = 0 - EINVAL /\ w = Null /\ mw' = mw)
            /\ (length \in 1..8 /\ heapOk) =>
                  /\ last'.ret = 0
                  /\ w # Null /\ ~mw[w].live /\ mw'[w].live
                  /\ mw'[w].Length = length
                  /\ Len(mw'[w].events) = length
                  /\ mw'[w].usedLength = 0
                  /\ mw'[w].containedKinds = 0
                  /\ mw'[w].next = Null
                  /\ ~(LET p == PendingList(mw', wokenMultiwaiters')
                       IN  p.status = "ok" /\ w \in Range(p.seq))
                  /\ \A v \in WaiterIds \ {w} : mw'[v] = mw[v]
            /\ (length \in 1..8 /\ ~heapOk) =>
                  (last'.ret = 0 - ENOMEM /\ w = Null /\ mw' = mw)

C8_CreateResults == [][C8_CreateStep]_vars

\* ------------------------------------------------------------------ C9
\* C9: every multiwaiter that exists has a Length in 1..8.
C9_LengthInRange ==
    \A w \in WaiterIds : mw[w].live => mw[w].Length \in 1..MaxMultiWaiterSize

\* ----------------------------------------------------------------- C10
\* What a caller may expect of a source, read off the interface: whether
\* set_events accepts it, and whether it is ready when registered.
SourceValid(ev) ==
    \/ ev.kind = EventWaiterQueue /\ ev.eventSource \in Queues
    \/ ev.kind = EventWaiterEventChannel /\ ev.eventSource \in Events /\ Low24(ev.value) # 0
    \/ ev.kind = EventWaiterFutex /\ ev.eventSource \in Words

SourceReady(ev, e) ==
    IF ev.kind = EventWaiterQueue THEN BitAnd(Low24(ev.value), e.queue[ev.eventSource]) # 0
    ELSE IF ev.kind = EventWaiterEventChannel
    THEN BitAnd(Low24(ev.value), e.bits[ev.eventSource]) # 0
    ELSE e.word[ev.eventSource] # ev.value

\* C10: set_events with a batch of valid sources sets usedLength to the count,
\* leaves readyEvents nonzero in exactly the slots whose source was ready, and
\* returns Wake when some source was ready and Sleep otherwise; a get_results
\* with the same count right after it returns true exactly after Wake, and
\* writes a nonzero value for every slot when every source was ready.
C10_RegisterStep ==
    Did("set_events") =>
        LET ev == last'.arg
            w == last'.w
        IN  (\A i \in 1..Len(ev) : SourceValid(ev[i])) =>
              /\ mw'[w].usedLength = Len(ev)
              /\ last'.ret = IF \E i \in 1..Len(ev) : SourceReady(ev[i], env)
                             THEN Wake ELSE Sleep
              /\ \A i \in 1..Len(ev) :
                    (mw'[w].events[i].readyEvents # 0) <=> SourceReady(ev[i], env)

C10_CollectStep ==
    ( /\ last.op = "set_events" /\ last.ret # Error
      /\ Did("get_results") /\ last'.w = last.w /\ last'.n = last.n )
    => /\ (last'.ret = 1) <=> (last.ret = Wake)
       /\ (\A i \in 1..last.n : SourceReady(last.arg[i], env))
             => (\A i \in 1..last.n : last'.out[i] # 0)

C10_RegisterResult == [][C10_RegisterStep /\ C10_CollectStep]_vars

\* A get_results has reported two fired slots of different kinds.
C10_Witness ==
    /\ kernel = "ok"
    /\ last.op = "get_results" /\ last.n = 2 /\ last.ret = 1
    /\ last.out[1] # 0 /\ last.out[2] # 0
    /\ mw[last.w].usedLength = 2
    /\ mw[last.w].events[1].kind # mw[last.w].events[2].kind

\* ------------------------------------------------------------------ C7
\* Thread t is not inside wait: it runs and its multiWaiter is null.
Returned(t) == thr[t].state = "running" /\ thr[t].multiWaiter = Null

\* Thread t is inside wait: suspended, or woken and not yet resumed.
InWait(t) == thr[t].state \in {"suspended", "ready"}

\* C7: every call of wait eventually returns: a thread inside wait eventually
\* runs again with its multiWaiter cleared.
C7_EveryWaitReturns ==
    \A t \in Threads : InWait(t) ~> Returned(t)

\* ----------------------------------------------------------------- C11
\* C11: set_events with an accepted batch leaves each slot given a futex
\* source (address, expected) with readyEvents = 1 when the word at the
\* address differs from expected, and then the call returns Wake; and with
\* readyEvents = 0 when the word equals expected, whatever the slot held
\* before.  A batch of that one source returns Wake exactly when the word
\* differs.
C11_FutexResetStep ==
    (Did("set_events") /\ last'.ret # Error) =>
        LET ev == last'.arg
            w == last'.w
        IN  \A i \in 1..Len(ev) :
                ev[i].kind = EventWaiterFutex =>
                    LET differs == env.word[ev[i].eventSource] # ev[i].value
                    IN  /\ mw'[w].events[i].readyEvents = (IF differs THEN 1 ELSE 0)
                        /\ mw'[w].events[i].kind = EventWaiterFutex
                        /\ mw'[w].events[i].eventSource = ev[i].eventSource
                        /\ mw'[w].events[i].eventValue = ev[i].value
                        /\ differs => last'.ret = Wake
                        /\ (Len(ev) = 1) => (last'.ret = Wake <=> differs)

C11_FutexReset == [][C11_FutexResetStep]_vars

\* A word registered again with the value it holds: slot 1 is not ready,
\* while slot 2, past the batch, still shows the earlier cycle in which both
\* slots fired at once.
C11_Witness ==
    /\ kernel = "ok"
    /\ last.op = "set_events" /\ last.ret = Sleep /\ last.n = 1
    /\ last.arg[1].kind = EventWaiterFutex
    /\ env.word[last.arg[1].eventSource] = last.arg[1].value
    /\ mw[last.w].events[1].readyEvents = 0
    /\ Len(mw[last.w].events) = 2
    /\ mw[last.w].events[2].kind = EventWaiterFutex
    /\ mw[last.w].events[2].eventSource = last.arg[1].eventSource
    /\ mw[last.w].events[2].readyEvents = 1

\* ----------------------------------------------------------------- C12
\* The index of the first source of the batch that a caller must expect to be
\* rejected, 0 when there is none.
FirstInvalid(ev) ==
    IF \A i \in 1..Len(ev) : SourceValid(ev[i]) THEN 0
    ELSE CHOOSE i \in 1..Len(ev) :
            ~SourceValid(ev[i]) /\ \A j \in 1..(i - 1) : SourceValid(ev[j])

\* C12: set_events returns Error exactly when some source of the batch is
\* invalid (a queue or channel handle that does not unseal as its kind, a
\* channel condition whose low 24 bits are zero, a word without load
\* permission, a kind that is none of the three).  On Error the sources before
\* the first invalid one have been stored in their slots, the slots from the
\* first invalid one onwards are as they were, and usedLength is as it was.
C12_ErrorStep ==
    Did("set_events") =>
        LET ev == last'.arg
            w == last'.w
            f == FirstInvalid(ev)
        IN  /\ (last'.ret = Error) <=> (f # 0)
            /\ (f # 0) =>
                  /\ mw'[w].usedLength = mw[w].usedLength
                  /\ \A i \in f..mw[w].Length : mw'[w].events[i] = mw[w].events[i]
                  /\ \A i \in 1..(f - 1) :
                        /\ mw'[w].events[i].eventSource = ev[i].eventSource
                        /\ mw'[w].events[i].kind = ev[i].kind

C12_ErrorOnInvalid == [][C12_ErrorStep]_vars

\* A batch whose second source is invalid has been rejected after one source
\* was registered before: slot 1 holds the new source, slot 2 holds what the
\* memory held at creation and usedLength is still the count of the
\* registration before.
C12_Witness ==
    /\ kernel = "ok"
    /\ last.op = "set_events" /\ last.ret = Error /\ last.n = 2
    /\ SourceValid(last.arg[1]) /\ ~SourceValid(last.arg[2])
    /\ mw[last.w].usedLength = 1
    /\ mw[last.w].events[1].eventSource = last.arg[1].eventSource
    /\ mw[last.w].events[2] = PerturbSlot

\* ----------------------------------------------------------------- C13
\* C13: when set_events returns Error, every slot the batch covers has
\* readyEvents = 0 and a get_results for the batch's count would return false.
C13_ErrorStep ==
    (Did("set_events") /\ last'.ret = Error) =>
        /\ \A i \in 1..last'.n : mw'[last'.w].events[i].readyEvents = 0
        /\ ~ResultFound(mw'[last'.w], last'.n)

C13_ErrorLeavesNotFired == [][C13_ErrorStep]_vars

\* ----------------------------------------------------------------- C14
\* C14: the containedKinds of every multiwaiter is the union of 1 << kind over
\* its registered slots, the slots below usedLength; in particular the kind of
\* every registered slot is in containedKinds, which is what keeps trigger
\* from skipping a registered source.
C14_RegisteredKindsContained ==
    \A w \in WaiterIds :
        mw[w].live =>
            \A i \in 1..mw[w].usedLength :
                BitAnd(mw[w].containedKinds, Pow2(mw[w].events[i].kind)) # 0

\* ----------------------------------------------------------------- C15
\* Slot j of multiwaiter m would fire for a wake of kind k from `source`
\* carrying info (channel bits) or qr (queue conditions).
SlotWouldFire(m, j, k, source, info, qr) ==
    /\ j \in 1..m.usedLength
    /\ SlotTrigger(m.events[j], k, source, info, qr).fired

\* C15: a wake for a source of kind k leaves a multiwaiter whose
\* containedKinds lacks k as it was, slots included, and wakes no thread that
\* sleeps on it (trigger returned false), even when one of its slots would
\* have fired for the source.
C15_AbsentKindStep ==
    Did("wake_waiters") =>
        \A w \in WaiterIds :
            (mw[w].live /\ BitAnd(mw[w].containedKinds, Pow2(last'.arg[1])) = 0) =>
                /\ mw'[w] = mw[w]
                /\ \A t \in Threads :
                      (Suspended(t) /\ thr[t].multiWaiter = w) => thr'[t] = thr[t]

C15_AbsentKindUntouched == [][C15_AbsentKindStep]_vars

\* A queue wake has passed over a sleeping thread's multiwaiter whose first
\* slot is registered for that queue and would have fired, because
\* containedKinds lacks the queue kind.
C15_Witness ==
    /\ kernel = "ok"
    /\ last.op = "wake_waiters" /\ last.arg[1] = EventWaiterQueue /\ last.ret = 0
    /\ \E t \in Threads :
          /\ Suspended(t)
          /\ thr[t].multiWaiter # Null
          /\ LET m == mw[thr[t].multiWaiter]
             IN  /\ BitAnd(m.containedKinds, Pow2(EventWaiterQueue)) = 0
                 /\ m.events[1].readyEvents = 0
                 /\ SlotWouldFire(m, 1, EventWaiterQueue, last.arg[2], 0, last.arg[3])

\* ----------------------------------------------------------------- C19
\* C19: a wake for source S of kind k changes nothing of any slot but the
\* readyEvents of slots whose kind is k and whose eventSource is S; and
\* get_results reports each slot's readyEvents, so that with a queue slot and
\* a word slot registered and only the queue woken it reports the queue slot
\* nonzero and the word slot 0.
C19_WakeFrameStep ==
    Did("wake_waiters") =>
        \A w \in WaiterIds : \A i \in DOMAIN mw[w].events :
            LET old == mw[w].events[i]
                new == mw'[w].events[i]
            IN  /\ new = [old EXCEPT !.readyEvents = new.readyEvents]
                /\ (old.kind # last'.arg[1] \/ old.eventSource # last'.arg[2])
                      => new = old

C19_CollectStep ==
    Did("get_results") =>
        /\ mw'[last'.w].events = mw[last'.w].events
        /\ \A i \in 1..last'.n : last'.out[i] = mw[last'.w].events[i].readyEvents

C19_OnlyMatchingSlots == [][C19_WakeFrameStep /\ C19_CollectStep]_vars

\* A thread that slept on a queue slot and a word slot has been woken by a
\* wake and has not resumed yet; get_results reports the queue slot fired and
\* the word slot, whose word holds the expected value, 0.
C19_Witness ==
    /\ kernel = "ok"
    /\ \E t \in Threads :
          /\ thr[t].state = "ready" /\ thr[t].reason = "MultiWaiter"
          /\ thr[t].multiWaiter = last.w
    /\ last.op = "get_results" /\ last.n = 2 /\ last.ret = 1
    /\ last.out[1] # 0 /\ last.out[2] = 0
    /\ mw[last.w].usedLength = 2
    /\ mw[last.w].events[1].kind = EventWaiterQueue
    /\ mw[last.w].events[2].kind = EventWaiterFutex
    /\ mw[last.w].events[2].eventSource \in Words
    /\ env.word[mw[last.w].events[2].eventSource] = mw[last.w].events[2].eventValue

\* ----------------------------------------------------------------- C16
\* The sequence s without w.
Without(s, w) == SelectSeq(s, LAMBDA x : x # w)

\* C16: get_results(newEvents, count) on w with count <= Length takes w off
\* the list of woken multiwaiters and keeps the others linked in their order
\* (the list is as it was when w was not on it), writes the readyEvents of
\* slots 0..count-1 in order, changes no slot, and returns true exactly when
\* one of the values written is nonzero; with count > Length it stops on the
\* assertion.
C16_CollectStep ==
    \A w \in WaiterIds :
        (last'.op = "get_results" /\ last'.w = w /\ kernel = "ok") =>
            IF last'.n > mw[w].Length
            THEN kernel' # "ok"
            ELSE /\ kernel' = "ok"
                 /\ LET after == PendingList(mw', wokenMultiwaiters')
                        before == PendingList(mw, wokenMultiwaiters)
                    IN  /\ after.status = "ok"
                        /\ w \notin Range(after.seq)
                        /\ before.status = "ok" => after.seq = Without(before.seq, w)
                 /\ mw'[w].events = mw[w].events
                 /\ last'.out = [i \in 1..last'.n |-> mw[w].events[i].readyEvents]
                 /\ (last'.ret = 1) <=> (\E i \in 1..last'.n : last'.out[i] # 0)

C16_CollectResults == [][C16_CollectStep]_vars

\* ----------------------------------------------------------------- C17
\* C17: a call of wake_waiters for the word at a, whatever maxWakes, calls
\* trigger first on every multiwaiter linked in the woken list when the call
\* began, in list order (over and over when the links form a cycle), and so
\* sets the slot registered for a in each; a list that ends at null lets the
\* call run to its end; the call leaves the threads that
\* were not asleep as they were; it wakes min(maxWakes, number eligible)
\* sleeping threads however many multiwaiters the list held; and it returns
\* the number of threads it moved from the sleeping list to ready.
C17_PendingStep ==
    (last'.op = "wake_waiters" /\ kernel = "ok") =>
        LET a == last'.arg[2]
            p == PendingList(mw, wokenMultiwaiters)
            wokenNow == {t \in Threads : WokenNow(t)}
        IN  /\ p.status # "hang" =>
                  /\ Len(last'.out) >= Len(p.seq)
                  /\ SubSeq(last'.out, 1, Len(p.seq)) = p.seq
            /\ \A w \in Range(p.seq) : \A j \in DOMAIN mw[w].events :
                  (mw[w].live /\ FutexSlot(mw[w], j, a))
                      => mw'[w].events[j].readyEvents # 0
            /\ p.status = "ok" => kernel' = "ok"
            /\ \A t \in Threads : thr[t].state # "suspended" => thr'[t] = thr[t]
            /\ kernel' = "ok" =>
                  /\ Cardinality(wokenNow) = Min(last'.n, Len(EligibleSeq(a)))
                  /\ last'.ret = Cardinality(wokenNow)

C17_PendingAlwaysTriggered == [][C17_PendingStep]_vars

\* A wake with maxWakes = 0 has set the slot of a multiwaiter on the woken
\* list, whose thread is ready and has not resumed, and has woken no one,
\* though a sleeping thread's multiwaiter fires for the same word.
C17_Witness ==
    /\ kernel = "ok"
    /\ last.op = "wake_waiters" /\ last.n = 0 /\ last.ret = 0
    /\ \E t, u \in Threads, w \in WaiterIds :
          /\ thr[t].state = "ready" /\ thr[t].reason = "MultiWaiter"
          /\ thr[t].multiWaiter = w /\ mw[w].live /\ OnPending(w)
          /\ last.out = <<w>>
          /\ \E j \in 1..mw[w].usedLength :
                FutexSlot(mw[w], j, last.arg[2]) /\ mw[w].events[j].readyEvents # 0
          /\ \E i \in 1..mw[w].usedLength :
                mw[w].events[i].eventSource # last.arg[2] /\ mw[w].events[i].readyEvents # 0
          /\ Suspended(u) /\ Eligible(u, last.arg[2])
          /\ thr[u].multiWaiter # w

\* ----------------------------------------------------------------- C18
\* C18: one call of wake_waiters calls trigger on no multiwaiter more than
\* once, be it through the woken list, through a sleeping thread, or both.
C18_VisitStep ==
    Did("wake_waiters") =>
        \A i, j \in 1..Len(last'.out) : last'.out[i] = last'.out[j] => i = j

C18_TriggeredOnce == [][C18_VisitStep]_vars

\* ----------------------------------------------------------------- C20
\* C20: no two distinct threads of the sleeping list record the same
\* multiwaiter.
C20_OneSleeperPerWaiter ==
    \A t, u \in Range(threads) :
        (t # u /\ thr[t].multiWaiter # Null) => thr[t].multiWaiter # thr[u].multiWaiter

\* ----------------------------------------------------------------- C21
\* C21: the list of woken multiwaiters is a finite list of live multiwaiters:
\* following next from wokenMultiwaiters ends at null without meeting a freed
\* object or the same multiwaiter twice; and a live multiwaiter that is not on
\* the list has a null next.
C21_PendingListWellFormed ==
    LET p == PendingList(mw, wokenMultiwaiters)
    IN  /\ p.status = "ok"
        /\ \A i, j \in 1..Len(p.seq) : p.seq[i] = p.seq[j] => i = j
        /\ \A i \in 1..Len(p.seq) : mw[p.seq[i]].live
        /\ \A w \in WaiterIds :
              (mw[w].live /\ w \notin Range(p.seq)) => mw[w].next = Null

\* ----------------------------------------------------------------- C22
\* C22: every thread of the sleeping list has a multiWaiter that is not null
\* and names a multiwaiter that has not been destroyed, so the visitor of
\* wake_waiters dereferences a live object; and a thread whose multiWaiter a
\* destroy clears is off the sleeping list when the destroy returns.
C22_SleepersHoldLive ==
    \A t \in Range(threads) :
        thr[t].multiWaiter # Null /\ mw[thr[t].multiWaiter].live

C22_DestroyStep ==
    Did("destroy") =>
        \A t \in Threads :
            (thr[t].multiWaiter # Null /\ thr'[t].multiWaiter = Null)
                => (t \in Range(threads) /\ t \notin Range(threads'))

C22_WakeStep ==
    (last'.op = "wake_waiters" /\ kernel = "ok" /\ kernel' = "fault") =>
        PendingList(mw, wokenMultiwaiters).status = "fault"

C22_SleepersDereferenceLive ==
    []C22_SleepersHoldLive /\ [][C22_DestroyStep /\ C22_WakeStep]_vars

\* A destroy has freed the multiwaiter a thread slept on: the thread's
\* multiWaiter is cleared, the thread is ready and off the sleeping list, and
\* no thread is left on the list.
C22_Witness ==
    /\ kernel = "ok"
    /\ last.op = "destroy" /\ ~mw[last.w].live
    /\ threads = << >>
    /\ \E t \in Threads :
          /\ thr[t].state = "ready" /\ thr[t].reason = "Timer"
          /\ thr[t].multiWaiter = Null

====
